---- MODULE Spec2Model ----
(***************************************************************************)
(* Orbit (src/src/Orbit.js): connection state, channel registry with join  *)
(* coalescing, leave, the message poster, the file ingestor and the peer   *)
(* poller.                                                                 *)
(*                                                                         *)
(* Every async method is split at its await points: the part up to the     *)
(* first await is the call action, and each resumption (the awaited        *)
(* collaborator promise fulfilling or rejecting) is an action of its own.  *)
(* Calls may be initiated before earlier ones complete.                    *)
(***************************************************************************)
EXTENDS Integers, Sequences, FiniteSets, Bags, TLC

\* ---------------------------------------------------------------- values

\* JS null / undefined (also: "no entry under this key").
Null == "<null>"

\* The collaborator's store handle held in this._orbitdb.
Store == "OrbitDB"

\* Channel names a caller joins; NameInputs adds the missing and empty names.
Names == {"a", "b"}
NameInputs == {Null, ""} \cup Names

\* connect(credentials): a string, or an object whose username is `value`
\* (Null when the object has no username field).
Credentials ==
  { [kind |-> "string", value |-> "alice"],
    [kind |-> "string", value |-> ""],
    [kind |-> "object", value |-> "alice"],
    [kind |-> "object", value |-> Null] }

\* send(channelName, message): a text is a sequence of characters; a missing
\* message is the one-element sequence <<Null>>.
NullMessage == <<Null>>
Messages == { NullMessage, <<>>, <<"h", "i">> }

\* Number of API calls (connect, disconnect, join, leave, send) a behaviour makes.
MaxCalls == 6

\* message.substring(0, 2048)
MaxContent == 2048

\* Length of the longest text sent.
LongText == 3000

\* A text of k characters.
Text(k) == [i \in 1..k |-> IF i % 2 = 1 THEN "h" ELSE "i"]

\* Texts around the content limit, for send.
SendTexts == { Text(k) : k \in {1, MaxContent, MaxContent + 1, LongText} }

\* A path is the sequence of its '/'-separated segments; the empty path stands
\* for a missing (or empty) filename or directory.
NoPath == << >>

\* source.meta as the function from its own keys to their values; the empty
\* function stands for a missing meta and for {}.
NoMeta == [k \in {} |-> Null]

\* addFile(channelName, source) arguments.
Sources ==
  { [filename |-> NoPath, directory |-> NoPath, buffer |-> Null, meta |-> NoMeta],
    [filename |-> <<"f">>, directory |-> NoPath, buffer |-> "bytes", meta |-> NoMeta],
    [filename |-> <<"p", "f">>, directory |-> NoPath, buffer |-> "bytes",
     meta |-> [type |-> "image"]],
    [filename |-> <<"f">>, directory |-> NoPath, buffer |-> "bytes",
     meta |-> [size |-> 7]],
    [filename |-> <<"p", "f">>, directory |-> NoPath, buffer |-> Null, meta |-> NoMeta],
    [filename |-> NoPath, directory |-> <<"p", "d">>, buffer |-> "bytes",
     meta |-> [name |-> "n"]] }

\* Results of this._ipfs.add: the added entries, in the order they were added.
AddResults ==
  { << >>,
    << [path |-> <<"f">>, hash |-> "Qf"] >>,
    << [path |-> <<"d", "f">>, hash |-> "Qf"], [path |-> <<"d">>, hash |-> "Qd"] >> }

FilenameNotSpecified == "Filename or directory not specified"

\* Number of times the poll interval fires in a behaviour.
MaxTicks == 3

\* What this._ipfs.swarm.peers() may answer: the entries of the peer table in
\* key order, each with its addr (Null when the entry has none).
PeerTables ==
  { << >>,
    << [addr |-> "x"], [addr |-> Null] >>,
    << [addr |-> "y"] >> }

\* Error messages thrown by Orbit (named by the error kind they stand for).
AlreadyConnected == "Already connected"
AlreadyConnecting == "Already connecting"
InvalidCredentials == "'username' not specified"
ChannelNameRequired == "Channel not specified"
ChannelMustBeSpecified == "Channel must be specified"
EmptyMessage == "Can't send an empty message"
NoActiveSession == "Something went wrong: 'user' is undefined"
ChannelNotJoined == "Have not joined"
\* Reading a property of null/undefined.
TypeError == "TypeError"
\* A collaborator promise rejected.
CollaboratorError == "CollaboratorError"

\* ----------------------------------------------------------------- state

VARIABLES
  orbitdb,          \* this._orbitdb: Null or Store
  user,             \* this._user: Null or the username (identity id and profile.name)
  channels,         \* this._channels: name -> 0 (absent) or the Channel (index into feeds)
  joiningQueue,     \* this._joiningQueue: name -> 0 (absent) or a promise (index into promises)
  connecting,       \* this._connecting
  pollPeersTimer,   \* this._pollPeersTimer: 0 (null) or the interval handle
  timerActive,      \* whether the interval behind the handle is still scheduled
  emitted,          \* this.events: how many times each event was emitted
  connectCalls,     \* connect calls suspended at an await: bag of [pc, username]
  disconnectCalls,  \* disconnect calls suspended at await this._orbitdb.disconnect()
  leaveCalls,       \* leave calls suspended at await channel.feed.close(): bag of [name, feed]
  promises,         \* the promises join created: sequence of [name, state, channel]
  feeds,            \* feeds the store opened, one Channel each: sequence of [name, closed, log]
  ret,              \* outcome of the latest call or resumption: [op, arg, out, ref]
  calls,            \* number of API calls made so far
  lastMessage,      \* the message argument of the latest send call
  uploads,          \* addFile calls suspended at await addToIpfs(): bag of [channelName, source]
  peers,            \* this._peers: sequence of peer address strings
  swarmCalls,       \* update() runs suspended at await this._ipfs.swarm.peers()
  ticks             \* number of times the poll interval has fired

vars ==
  << orbitdb, user, channels, joiningQueue, connecting, pollPeersTimer, timerActive,
     emitted, connectCalls, disconnectCalls, leaveCalls, promises, feeds, ret, calls,
     lastMessage, uploads, peers, swarmCalls, ticks >>

NoChannels == [n \in NameInputs |-> 0]

Init ==
  /\ orbitdb = Null
  /\ user = Null
  /\ channels = NoChannels
  /\ joiningQueue = [n \in NameInputs |-> 0]
  /\ connecting = FALSE
  /\ pollPeersTimer = 0
  /\ timerActive = FALSE
  /\ emitted = [ connected |-> 0, disconnected |-> 0,
                 joined |-> [n \in NameInputs |-> 0], left |-> [n \in NameInputs |-> 0],
                 peers |-> 0 ]
  /\ connectCalls = EmptyBag
  /\ disconnectCalls = 0
  /\ leaveCalls = EmptyBag
  /\ promises = << >>
  /\ feeds = << >>
  /\ ret = [op |-> "none", arg |-> Null, out |-> "none", ref |-> 0]
  /\ calls = 0
  /\ lastMessage = << >>
  /\ uploads = EmptyBag
  /\ peers = << >>
  /\ swarmCalls = 0
  /\ ticks = 0

\* --------------------------------------------------------------- helpers

\* JS falsiness of a string-or-missing value: !v
Falsy(v) == v = Null \/ v = ""

\* get online
online == orbitdb # Null

Result(op, arg, out, ref) == [op |-> op, arg |-> arg, out |-> out, ref |-> ref]

Call == calls < MaxCalls /\ calls' = calls + 1

\* ---------------------------------------------------------------- connect

\* typeof credentials === 'string' ? { username: credentials } : credentials, then .username
Username(credentials) == credentials.value

connect(credentials) ==
  /\ Call
  /\ IF orbitdb # Null
       THEN /\ ret' = Result("connect", Username(credentials), AlreadyConnected, 0)
            /\ UNCHANGED << connecting, connectCalls >>
     ELSE IF connecting
       THEN /\ ret' = Result("connect", Username(credentials), AlreadyConnecting, 0)
            /\ UNCHANGED << connecting, connectCalls >>
     ELSE /\ connecting' = TRUE
          /\ IF Falsy(Username(credentials))
               THEN /\ ret' = Result("connect", Username(credentials), InvalidCredentials, 0)
                    /\ UNCHANGED connectCalls
               ELSE /\ connectCalls' = connectCalls (+)
                        SetToBag({[pc |-> "createIdentity", username |-> Username(credentials)]})
                    /\ ret' = Result("connect", Username(credentials), "pending", 0)
  /\ UNCHANGED << orbitdb, user, channels, joiningQueue, pollPeersTimer, timerActive,
                  emitted, disconnectCalls, leaveCalls, promises, feeds >>
  /\ UNCHANGED << lastMessage, uploads, peers, swarmCalls, ticks >>

\* Identities.createIdentity fulfils: the session is stored and createInstance is called.
createIdentityDone(c) ==
  /\ BagIn(c, connectCalls) /\ c.pc = "createIdentity"
  /\ user' = c.username
  /\ connectCalls' = (connectCalls (-) SetToBag({c})) (+)
                       SetToBag({[pc |-> "createInstance", username |-> c.username]})
  /\ UNCHANGED << orbitdb, channels, joiningQueue, connecting, pollPeersTimer, timerActive,
                  emitted, disconnectCalls, leaveCalls, promises, feeds, ret, calls >>
  /\ UNCHANGED << lastMessage, uploads, peers, swarmCalls, ticks >>

\* Identities.createIdentity rejects: connect throws.
createIdentityFail(c) ==
  /\ BagIn(c, connectCalls) /\ c.pc = "createIdentity"
  /\ connectCalls' = connectCalls (-) SetToBag({c})
  /\ ret' = Result("connect", c.username, CollaboratorError, 0)
  /\ UNCHANGED << orbitdb, user, channels, joiningQueue, connecting, pollPeersTimer,
                  timerActive, emitted, disconnectCalls, leaveCalls, promises, feeds, calls >>
  /\ UNCHANGED << lastMessage, uploads, peers, swarmCalls, ticks >>

\* if (!this._pollPeersTimer) this._pollPeersTimer = setInterval(update, 3000)
startPollingForPeers ==
  IF pollPeersTimer = 0
    THEN pollPeersTimer' = 1 /\ timerActive' = TRUE
    ELSE UNCHANGED << pollPeersTimer, timerActive >>

\* OrbitDB.createInstance fulfils: store kept, poller started, then
\* this.user.profile.name is read (throws when the session is gone) and
\* 'connected' is emitted.
createInstanceDone(c) ==
  /\ BagIn(c, connectCalls) /\ c.pc = "createInstance"
  /\ connectCalls' = connectCalls (-) SetToBag({c})
  /\ orbitdb' = Store
  /\ startPollingForPeers
  /\ IF user = Null
       THEN /\ ret' = Result("connect", c.username, TypeError, 0)
            /\ UNCHANGED emitted
       ELSE /\ emitted' = [emitted EXCEPT !.connected = @ + 1]
            /\ ret' = Result("connect", c.username, "connected", 0)
  /\ UNCHANGED << user, channels, joiningQueue, connecting, disconnectCalls, leaveCalls,
                  promises, feeds, calls >>
  /\ UNCHANGED << lastMessage, uploads, peers, swarmCalls, ticks >>

\* OrbitDB.createInstance rejects: connect throws.
createInstanceFail(c) ==
  /\ BagIn(c, connectCalls) /\ c.pc = "createInstance"
  /\ connectCalls' = connectCalls (-) SetToBag({c})
  /\ ret' = Result("connect", c.username, CollaboratorError, 0)
  /\ UNCHANGED << orbitdb, user, channels, joiningQueue, connecting, pollPeersTimer,
                  timerActive, emitted, disconnectCalls, leaveCalls, promises, feeds, calls >>
  /\ UNCHANGED << lastMessage, uploads, peers, swarmCalls, ticks >>

\* ------------------------------------------------------------- disconnect

disconnect ==
  /\ Call
  /\ IF orbitdb = Null
       THEN /\ ret' = Result("disconnect", Null, "noop", 0)
            /\ UNCHANGED disconnectCalls
       ELSE /\ disconnectCalls' = disconnectCalls + 1
            /\ ret' = Result("disconnect", Null, "pending", 0)
  /\ UNCHANGED << orbitdb, user, channels, joiningQueue, connecting, pollPeersTimer,
                  timerActive, emitted, connectCalls, leaveCalls, promises, feeds >>
  /\ UNCHANGED << lastMessage, uploads, peers, swarmCalls, ticks >>

\* if (this._pollPeersTimer) clearInterval(this._pollPeersTimer)
clearPollPeersTimer ==
  /\ timerActive' = IF pollPeersTimer # 0 THEN FALSE ELSE timerActive
  /\ UNCHANGED pollPeersTimer

\* this._orbitdb.disconnect() fulfils: the rest of disconnect runs.
disconnectDone ==
  /\ disconnectCalls > 0
  /\ disconnectCalls' = disconnectCalls - 1
  /\ connecting' = FALSE
  /\ orbitdb' = Null
  /\ user' = Null
  /\ channels' = NoChannels
  /\ clearPollPeersTimer
  /\ emitted' = [emitted EXCEPT !.disconnected = @ + 1]
  /\ ret' = Result("disconnect", Null, "disconnected", 0)
  /\ UNCHANGED << joiningQueue, connectCalls, leaveCalls, promises, feeds, calls >>
  /\ UNCHANGED << lastMessage, uploads, peers, swarmCalls, ticks >>

\* this._orbitdb.disconnect() rejects: disconnect throws at the await.
disconnectFail ==
  /\ disconnectCalls > 0
  /\ disconnectCalls' = disconnectCalls - 1
  /\ ret' = Result("disconnect", Null, CollaboratorError, 0)
  /\ UNCHANGED << orbitdb, user, channels, joiningQueue, connecting, pollPeersTimer,
                  timerActive, emitted, connectCalls, leaveCalls, promises, feeds, calls >>
  /\ UNCHANGED << lastMessage, uploads, peers, swarmCalls, ticks >>

\* ------------------------------------------------------------------- join

\* Mutant of ChannelNotSpecified: the check forgets the empty string.
ChannelNotSpecifiedNullOnly(channelName) == channelName = Null

\* !channelName || channelName === ''
ChannelNotSpecified(channelName) == Falsy(channelName) \/ channelName = ""

\* return Promise.reject(new Error('Channel not specified'))
joinReject(channelName) ==
  /\ ret' = Result("join", channelName, ChannelNameRequired, 0)
  /\ UNCHANGED << joiningQueue, promises, emitted >>

\* Mutant of joinExisting: returning the existing Channel announces it again.
joinExistingEmits(channelName) ==
  /\ ret' = Result("join", channelName, "resolved", channels[channelName])
  /\ emitted' = [emitted EXCEPT !.joined[channelName] = @ + 1]
  /\ UNCHANGED << joiningQueue, promises >>

\* return Promise.resolve(this._channels[channelName])
joinExisting(channelName) ==
  /\ ret' = Result("join", channelName, "resolved", channels[channelName])
  /\ UNCHANGED << joiningQueue, promises, emitted >>

\* this._joiningQueue[channelName] = new Promise(...): the executor calls
\* this._orbitdb.log(channelName, options); with no store that read throws and the
\* new promise is rejected. Either way the promise is stored and returned.
joinOpen(channelName) ==
  /\ promises' = Append(promises,
       [name |-> channelName, state |-> IF orbitdb = Null THEN "rejected" ELSE "opening",
        channel |-> 0])
  /\ joiningQueue' = [joiningQueue EXCEPT ![channelName] = Len(promises) + 1]
  /\ ret' = Result("join", channelName, IF orbitdb = Null THEN TypeError ELSE "pending",
                   Len(promises) + 1)
  /\ UNCHANGED emitted

\* return this._joiningQueue[channelName], an entry made by an earlier call
joinPending(channelName) ==
  /\ ret' = Result("join", channelName,
                   IF promises[joiningQueue[channelName]].state = "rejected"
                     THEN TypeError ELSE "pending",
                   joiningQueue[channelName])
  /\ UNCHANGED << joiningQueue, promises, emitted >>

join(channelName) ==
  /\ Call
  /\ IF ChannelNotSpecified(channelName) THEN joinReject(channelName)
     ELSE IF channels[channelName] # 0 THEN joinExisting(channelName)
     ELSE IF joiningQueue[channelName] = 0 THEN joinOpen(channelName)
     ELSE joinPending(channelName)
  /\ UNCHANGED << orbitdb, user, channels, connecting, pollPeersTimer, timerActive,
                  connectCalls, disconnectCalls, leaveCalls, feeds >>
  /\ UNCHANGED << lastMessage, uploads, peers, swarmCalls, ticks >>

\* this._orbitdb.log(...) fulfils with a feed: the .then callback registers the
\* Channel, emits 'joined', deletes the queue entry and resolves the promise.
logDone(p) ==
  /\ p \in 1..Len(promises) /\ promises[p].state = "opening"
  /\ LET channelName == promises[p].name
         feed == Len(feeds) + 1
     IN /\ feeds' = Append(feeds, [name |-> channelName, closed |-> FALSE, log |-> << >>])
        /\ channels' = [channels EXCEPT ![channelName] = feed]
        /\ emitted' = [emitted EXCEPT !.joined[channelName] = @ + 1]
        /\ joiningQueue' = [joiningQueue EXCEPT ![channelName] = 0]
        /\ promises' = [promises EXCEPT ![p] = [@ EXCEPT !.state = "resolved", !.channel = feed]]
        /\ ret' = Result("join", channelName, "joined", feed)
  /\ UNCHANGED << orbitdb, user, connecting, pollPeersTimer, timerActive, connectCalls,
                  disconnectCalls, leaveCalls, calls >>
  /\ UNCHANGED << lastMessage, uploads, peers, swarmCalls, ticks >>

\* this._orbitdb.log(...) rejects: no rejection handler is attached, so the
\* callback never runs and the promise join returned stays pending for ever.
logFail(p) ==
  /\ p \in 1..Len(promises) /\ promises[p].state = "opening"
  /\ promises' = [promises EXCEPT ![p] = [@ EXCEPT !.state = "orphaned"]]
  /\ UNCHANGED << orbitdb, user, channels, joiningQueue, connecting, pollPeersTimer,
                  timerActive, emitted, connectCalls, disconnectCalls, leaveCalls, feeds,
                  ret, calls >>
  /\ UNCHANGED << lastMessage, uploads, peers, swarmCalls, ticks >>

\* ------------------------------------------------------------------ leave

leave(channelName) ==
  /\ Call
  /\ IF channels[channelName] # 0
       THEN /\ leaveCalls' = leaveCalls (+)
                SetToBag({[name |-> channelName, feed |-> channels[channelName]]})
            /\ ret' = Result("leave", channelName, "pending", channels[channelName])
            /\ UNCHANGED emitted
       ELSE /\ emitted' = [emitted EXCEPT !.left[channelName] = @ + 1]
            /\ ret' = Result("leave", channelName, "left", 0)
            /\ UNCHANGED leaveCalls
  /\ UNCHANGED << orbitdb, user, channels, joiningQueue, connecting, pollPeersTimer,
                  timerActive, connectCalls, disconnectCalls, promises, feeds >>
  /\ UNCHANGED << lastMessage, uploads, peers, swarmCalls, ticks >>

\* channel.feed.close() fulfils: the registry entry under the name is deleted
\* and 'left' is emitted.
closeDone(l) ==
  /\ BagIn(l, leaveCalls)
  /\ leaveCalls' = leaveCalls (-) SetToBag({l})
  /\ feeds' = [feeds EXCEPT ![l.feed] = [@ EXCEPT !.closed = TRUE]]
  /\ channels' = [channels EXCEPT ![l.name] = 0]
  /\ emitted' = [emitted EXCEPT !.left[l.name] = @ + 1]
  /\ ret' = Result("leave", l.name, "left", l.feed)
  /\ UNCHANGED << orbitdb, user, joiningQueue, connecting, pollPeersTimer, timerActive,
                  connectCalls, disconnectCalls, promises, calls >>
  /\ UNCHANGED << lastMessage, uploads, peers, swarmCalls, ticks >>

\* channel.feed.close() rejects: leave throws at the await.
closeFail(l) ==
  /\ BagIn(l, leaveCalls)
  /\ leaveCalls' = leaveCalls (-) SetToBag({l})
  /\ ret' = Result("leave", l.name, CollaboratorError, l.feed)
  /\ UNCHANGED << orbitdb, user, channels, joiningQueue, connecting, pollPeersTimer,
                  timerActive, emitted, connectCalls, disconnectCalls, promises, feeds, calls >>
  /\ UNCHANGED << lastMessage, uploads, peers, swarmCalls, ticks >>

\* ------------------------------------------------------------------- send

\* !message || message === ''
MessageEmpty(message) == message = NullMessage \/ message = << >>

\* Mutant of substring: the end index is taken as inclusive.
substringInclusive(s, from, to) ==
  SubSeq(s, from + 1, IF to + 1 < Len(s) THEN to + 1 ELSE Len(s))

\* String.prototype.substring(from, to) for 0 <= from <= to
substring(s, from, to) == SubSeq(s, from + 1, IF to < Len(s) THEN to ELSE Len(s))

\* _getChannelFeed: the error it throws for channelName, or "none"
getChannelFeedError(channelName) ==
  IF ChannelNotSpecified(channelName) THEN ChannelNameRequired
  ELSE IF channels[channelName] = 0 THEN TypeError
  ELSE "none"

\* _postMessage: feed.add(data) on the channel's feed
postMessage(op, channelName, data) ==
  IF getChannelFeedError(channelName) # "none"
    THEN /\ ret' = Result(op, channelName, getChannelFeedError(channelName), 0)
         /\ UNCHANGED feeds
    ELSE /\ feeds' = [feeds EXCEPT ![channels[channelName]] =
                        [@ EXCEPT !.log = Append(@, data)]]
         /\ ret' = Result(op, channelName, "added", channels[channelName])

send(channelName, message) ==
  /\ Call
  /\ lastMessage' = message
  /\ IF ChannelNotSpecified(channelName)
       THEN ret' = Result("send", channelName, ChannelMustBeSpecified, 0) /\ UNCHANGED feeds
     ELSE IF MessageEmpty(message)
       THEN ret' = Result("send", channelName, EmptyMessage, 0) /\ UNCHANGED feeds
     ELSE IF user = Null
       THEN ret' = Result("send", channelName, NoActiveSession, 0) /\ UNCHANGED feeds
     ELSE postMessage("send", channelName,
            [content |-> substring(message, 0, MaxContent), from |-> user, type |-> "text"])
  /\ UNCHANGED << orbitdb, user, channels, joiningQueue, connecting, pollPeersTimer,
                  timerActive, emitted, connectCalls, disconnectCalls, leaveCalls, promises >>
  /\ UNCHANGED << uploads, peers, swarmCalls, ticks >>

\* ---------------------------------------------------------------- addFile

\* path.split('/').pop()
Leaf(path) == IF path = NoPath THEN "" ELSE path[Len(path)]

\* Object.assign(target, source): the keys of source overwrite those of target
Assign(target, source) ==
  [k \in DOMAIN target \cup DOMAIN source |->
     IF k \in DOMAIN source THEN source[k] ELSE target[k]]

\* source.buffer && source.filename
isBuffer(source) == source.buffer # Null /\ source.filename # NoPath

\* source.directory ? leaf of directory : leaf of filename
FileName(source) ==
  IF source.directory # NoPath THEN Leaf(source.directory) ELSE Leaf(source.filename)

\* source.meta && source.meta.size ? source.meta.size : 0
FileSize(source) ==
  IF "size" \in DOMAIN source.meta /\ source.meta.size # 0 THEN source.meta.size ELSE 0

\* _addToIpfsJs / _addToIpfsGo on a non-empty result of this._ipfs.add
Upload(source, result) ==
  LET isDirectory == IF isBuffer(source) THEN FALSE
                     ELSE Leaf(result[1].path) # FileName(source)
  IN [ hash |-> IF isDirectory THEN result[Len(result)].hash ELSE result[1].hash,
       isDirectory |-> isDirectory ]

\* The post addFile builds from an upload.
FilePost(source, upload) ==
  [ content |-> upload.hash,
    meta |-> Assign(Assign([ from |-> user,
                             type |-> IF upload.isDirectory THEN "directory" ELSE "file" ],
                           [ size |-> FileSize(source), name |-> FileName(source) ]),
                    source.meta) ]

\* addFile up to await addToIpfs()
addFile(channelName, source) ==
  /\ Call
  /\ IF source.filename = NoPath /\ source.directory = NoPath
       THEN /\ ret' = Result("addFile", channelName, FilenameNotSpecified, 0)
            /\ UNCHANGED uploads
       ELSE /\ uploads' = uploads (+) SetToBag({[channelName |-> channelName, source |-> source]})
            /\ ret' = Result("addFile", channelName, "pending", 0)
  /\ UNCHANGED << orbitdb, user, channels, joiningQueue, connecting, pollPeersTimer,
                  timerActive, emitted, connectCalls, disconnectCalls, leaveCalls, promises,
                  feeds, lastMessage, peers, swarmCalls, ticks >>

\* this._ipfs.add resolved with result: addFile builds the post and posts it
addDone(u, result) ==
  /\ BagIn(u, uploads)
  /\ uploads' = uploads (-) SetToBag({u})
  /\ IF result = << >> \/ user = Null
       THEN /\ ret' = Result("addFile", u.channelName, TypeError, 0)
            /\ UNCHANGED feeds
       ELSE postMessage("addFile", u.channelName, FilePost(u.source, Upload(u.source, result)))
  /\ UNCHANGED << orbitdb, user, channels, joiningQueue, connecting, pollPeersTimer,
                  timerActive, emitted, connectCalls, disconnectCalls, leaveCalls, promises,
                  calls, lastMessage, peers, swarmCalls, ticks >>

\* this._ipfs.add rejected: addFile rejects with the same error
addFail(u) ==
  /\ BagIn(u, uploads)
  /\ uploads' = uploads (-) SetToBag({u})
  /\ ret' = Result("addFile", u.channelName, CollaboratorError, 0)
  /\ UNCHANGED << orbitdb, user, channels, joiningQueue, connecting, pollPeersTimer,
                  timerActive, emitted, connectCalls, disconnectCalls, leaveCalls, promises,
                  feeds, calls, lastMessage, peers, swarmCalls, ticks >>

\* ----------------------------------------------------------- peer poller

\* The interval set by _startPollingForPeers fires: update() runs up to
\* await this._ipfs.swarm.peers().
tick ==
  /\ timerActive
  /\ ticks < MaxTicks
  /\ ticks' = ticks + 1
  /\ swarmCalls' = swarmCalls + 1
  /\ UNCHANGED << orbitdb, user, channels, joiningQueue, connecting, pollPeersTimer,
                  timerActive, emitted, connectCalls, disconnectCalls, leaveCalls, promises,
                  feeds, ret, calls, lastMessage, uploads, peers >>

\* Object.keys(peers).filter(e => peers[e].addr !== undefined)
\*                   .map(e => peers[e].addr.toString())
RECURSIVE Addresses(_)
Addresses(table) ==
  IF table = << >> THEN << >>
  ELSE IF Head(table).addr # Null
    THEN << Head(table).addr >> \o Addresses(Tail(table))
    ELSE Addresses(Tail(table))

\* update() after _updateSwarmPeers returned `result` (Null for undefined):
\* this._peers = result || []; this.events.emit('peers', this._peers)
update(result, out) ==
  /\ peers' = result
  /\ emitted' = [emitted EXCEPT !.peers = @ + 1]
  /\ ret' = Result("update", Null, out, 0)
  /\ UNCHANGED << orbitdb, user, channels, joiningQueue, connecting, pollPeersTimer,
                  timerActive, connectCalls, disconnectCalls, leaveCalls, promises, feeds,
                  calls, lastMessage, uploads, ticks >>

\* this._ipfs.swarm.peers() fulfils with a peer table.
swarmPeersDone(table) ==
  /\ swarmCalls > 0
  /\ swarmCalls' = swarmCalls - 1
  /\ update(Addresses(table), "peers")

\* this._ipfs.swarm.peers() rejects: _updateSwarmPeers logs the error and
\* returns undefined, and update() goes on with `undefined || []`.
swarmPeersFail ==
  /\ swarmCalls > 0
  /\ swarmCalls' = swarmCalls - 1
  /\ update(<< >>, CollaboratorError)

\* ---------------------------------------------------------- specification

Next ==
  \/ \E credentials \in Credentials : connect(credentials)
  \/ \E c \in BagToSet(connectCalls) : createIdentityDone(c)
  \/ \E c \in BagToSet(connectCalls) : createIdentityFail(c)
  \/ \E c \in BagToSet(connectCalls) : createInstanceDone(c)
  \/ \E c \in BagToSet(connectCalls) : createInstanceFail(c)
  \/ disconnect
  \/ disconnectDone
  \/ disconnectFail
  \/ \E channelName \in NameInputs : join(channelName)
  \/ \E p \in 1..Len(promises) : logDone(p)
  \/ \E p \in 1..Len(promises) : logFail(p)
  \/ \E channelName \in Names : leave(channelName)
  \/ \E l \in BagToSet(leaveCalls) : closeDone(l)
  \/ \E l \in BagToSet(leaveCalls) : closeFail(l)
  \/ \E channelName \in NameInputs, message \in Messages : send(channelName, message)

Spec == Init /\ [][Next]_vars

\* The instance after connect('alice') and join('a') have completed.
InitJoined ==
  /\ orbitdb = Store
  /\ user = "alice"
  /\ channels = [NoChannels EXCEPT !["a"] = 1]
  /\ joiningQueue = [n \in NameInputs |-> 0]
  /\ connecting = TRUE
  /\ pollPeersTimer = 1
  /\ timerActive = TRUE
  /\ emitted = [ connected |-> 1, disconnected |-> 0,
                 joined |-> [n \in NameInputs |-> IF n = "a" THEN 1 ELSE 0],
                 left |-> [n \in NameInputs |-> 0], peers |-> 0 ]
  /\ connectCalls = EmptyBag
  /\ disconnectCalls = 0
  /\ leaveCalls = EmptyBag
  /\ promises = << [name |-> "a", state |-> "resolved", channel |-> 1] >>
  /\ feeds = << [name |-> "a", closed |-> FALSE, log |-> << >>] >>
  /\ ret = Result("join", "a", "joined", 1)
  /\ calls = 2
  /\ lastMessage = << >>
  /\ uploads = EmptyBag
  /\ peers = << >>
  /\ swarmCalls = 0
  /\ ticks = 0

\* The text poster on a joined channel, with texts around the content limit.
NextSend ==
  \E channelName \in Names, message \in SendTexts : send(channelName, message)

SpecSend == InitJoined /\ [][NextSend]_vars

\* File uploads on an instance with a joined channel.
NextFile ==
  \/ \E channelName \in Names, source \in Sources : addFile(channelName, source)
  \/ \E u \in BagToSet(uploads), result \in AddResults : addDone(u, result)
  \/ \E u \in BagToSet(uploads) : addFail(u)

SpecFile == InitJoined /\ [][NextFile]_vars

\* Connection state machine together with the peer poller.
NextPoll ==
  \/ \E credentials \in Credentials : connect(credentials)
  \/ \E c \in BagToSet(connectCalls) : createIdentityDone(c)
  \/ \E c \in BagToSet(connectCalls) : createIdentityFail(c)
  \/ \E c \in BagToSet(connectCalls) : createInstanceDone(c)
  \/ \E c \in BagToSet(connectCalls) : createInstanceFail(c)
  \/ disconnect
  \/ disconnectDone
  \/ disconnectFail
  \/ tick
  \/ \E table \in PeerTables : swarmPeersDone(table)
  \/ swarmPeersFail

SpecPoll == Init /\ [][NextPoll]_vars

\* ----------------------------------------------------------------- claims

\* (Helper of the claims.) A step that is a call of `op`: every API call counts
\* itself in `calls`.
CallStep(op) == calls' = calls + 1 /\ ret'.op = op

\* (Helper of the claims.) Promises of `channelName` whose orbitdb.log call is
\* still in flight.
OpensInFlight(channelName) ==
  { p \in 1..Len(promises) : promises[p].name = channelName /\ promises[p].state = "opening" }

\* C1: a join(name) call made while Connected on a name with no Channel leaves
\* exactly one log-open in flight for the name and hands the caller the promise
\* of that open; a call that finds an open in flight starts no second one, so
\* all callers of the batch hold the same promise and hence the same Channel.
C1_JoinCoalescing ==
  [][ \A n \in Names :
        (CallStep("join") /\ ret'.arg = n /\ online /\ channels[n] = 0)
          => /\ Cardinality(OpensInFlight(n)') = 1
             /\ ret'.ref \in OpensInFlight(n)'
             /\ (OpensInFlight(n) # {} => OpensInFlight(n)' = OpensInFlight(n)) ]_vars

\* C2: for every name, the number of 'joined' events emitted equals the number
\* of log-opens for that name that completed successfully.
C2_JoinedOncePerOpen ==
  \A n \in NameInputs :
    emitted.joined[n] =
      Cardinality({ p \in 1..Len(promises) :
                      promises[p].name = n /\ promises[p].state = "resolved" })

\* C2 witness: a join returned the already-joined Channel of a name whose open
\* had emitted 'joined' once.
C2_Witness ==
  /\ ret.op = "join" /\ ret.out = "resolved"
  /\ emitted.joined[ret.arg] = 1

\* C3: a join(name) called right after leave(name) on a joined channel (the
\* leave still closing the feed, or just finished) starts a fresh log-open.
C3_LeaveThenJoinOpensFresh ==
  [][ \A n \in Names :
        ( /\ ret.op = "leave" /\ ret.arg = n /\ ret.ref # 0
          /\ ret.out \in {"pending", "left"}
          /\ CallStep("join") /\ ret'.arg = n )
          => /\ Len(promises') = Len(promises) + 1
             /\ promises'[Len(promises')].state = "opening"
             /\ ret'.ref = Len(promises') ]_vars

\* C4: join with a missing or empty name fails with ChannelNameRequired and
\* leaves the channel map, the pending-join map, the opens and the events as
\* they were, whatever the connection state.
C4_JoinWithoutNameRejected ==
  [][ (CallStep("join") /\ ret'.arg \in {Null, ""})
        => /\ ret'.out = ChannelNameRequired
           /\ UNCHANGED << channels, joiningQueue, promises, emitted, feeds >> ]_vars

\* C4 witness: join("") was rejected on a connected instance with a joined channel.
C4_Witness ==
  /\ ret.op = "join" /\ ret.arg = "" /\ ret.out = ChannelNameRequired
  /\ online
  /\ \E n \in Names : channels[n] # 0

\* C5: once a connect has failed and none is in flight, the instance is not
\* left in Connecting (the flag that makes the next connect fail with
\* AlreadyConnecting is down).
C5_RetryableAfterFailedConnect ==
  ( /\ ret.op = "connect"
    /\ ret.out \in {InvalidCredentials, CollaboratorError}
    /\ connectCalls = EmptyBag
    /\ ~online )
    => ~connecting

\* C6: a connect call fails with AlreadyConnected when Connected and with
\* AlreadyConnecting while an earlier connect is in flight, and such a call
\* changes neither session, store, channels nor flag and emits nothing.
C6_ConnectRejectedWhileBusy ==
  [][ CallStep("connect") =>
        /\ online => ret'.out = AlreadyConnected
        /\ (~online /\ connectCalls # EmptyBag) => ret'.out = AlreadyConnecting
        /\ (online \/ connectCalls # EmptyBag)
             => UNCHANGED << user, orbitdb, channels, connecting, emitted >> ]_vars

\* C7: whenever the instance is Disconnected (no store, no session) the
\* channel map is empty.
C7_NoChannelsWhileDisconnected ==
  (orbitdb = Null /\ user = Null) => channels = NoChannels

\* C8: 'disconnected' is emitted only by a disconnect that ends a connection
\* (two disconnects in a row emit it once), and a disconnect called on a
\* Disconnected instance changes nothing and emits nothing.
C8_DisconnectIdempotent ==
  [][ /\ emitted'.disconnected # emitted.disconnected => online
      /\ (CallStep("disconnect") /\ ~online)
           => /\ ret'.out = "noop"
              /\ UNCHANGED << orbitdb, user, channels, joiningQueue, connecting,
                              pollPeersTimer, timerActive, emitted, disconnectCalls >> ]_vars

\* C9: every disconnect that was waiting for the store to close ends without
\* an error and with the teardown done: session, store and channels cleared,
\* the poll timer cleared and 'disconnected' emitted.
C9_DisconnectNeverFails ==
  [][ disconnectCalls' < disconnectCalls
        => /\ ret'.out = "disconnected"
           /\ orbitdb' = Null /\ user' = Null /\ channels' = NoChannels
           /\ ~timerActive'
           /\ emitted'.disconnected = emitted.disconnected + 1 ]_vars

\* C10: a send with a channel name and a text (the two argument checks passed)
\* made while not Connected fails with NoActiveSession and appends nothing.
C10_SendNeedsConnection ==
  [][ ( /\ CallStep("send") /\ ~online
        /\ ret'.out \notin {ChannelMustBeSpecified, EmptyMessage} )
        => /\ ret'.out = NoActiveSession
           /\ UNCHANGED feeds ]_vars

\* C11: a send made while Connected that reaches _postMessage fails with ChannelNotJoined and
\* appends nothing when the name has no Channel in the registry; when it has
\* one, exactly one record is appended to that Channel's feed and the append
\* result is returned.
C11_PostNeedsJoinedChannel ==
  [][ \A n \in Names :
        ( /\ CallStep("send") /\ ret'.arg = n /\ online
          /\ ret'.out \notin {ChannelMustBeSpecified, EmptyMessage, NoActiveSession} )
          => IF channels[n] = 0
               THEN ret'.out = ChannelNotJoined /\ UNCHANGED feeds
               ELSE /\ ret'.out = "added" /\ ret'.ref = channels[n]
                    /\ Len(feeds'[channels[n]].log) = Len(feeds[channels[n]].log) + 1
                    /\ \A f \in 1..Len(feeds) : f # channels[n] => feeds'[f] = feeds[f] ]_vars

\* C16: the pending-join map holds an entry for a name only while a log-open
\* for that name is in flight.
C16_PendingJoinOnlyWhileOpening ==
  \A n \in NameInputs :
    joiningQueue[n] # 0 => promises[joiningQueue[n]].state = "opening"

\* C17: the instance is online (store handle present) only if a Session is
\* present.
C17_OnlineImpliesSession ==
  online => user # Null

\* C18: once the log-open of a join has completed, with a feed or with a
\* failure, the promise the callers of that join hold is settled: no promise
\* is left pending behind a log-open that has failed.
C18_JoinSettlesWithItsOpen ==
  \A p \in 1..Len(promises) : promises[p].state # "orphaned"

\* C19: whenever a leave removes a Channel from the channel map, the feed of
\* that very Channel has been closed.
C19_LeaveClosesWhatItRemoves ==
  [][ \A n \in Names :
        (ret'.op = "leave" /\ channels[n] # 0 /\ channels'[n] = 0)
          => feeds'[channels[n]].closed ]_vars

\* C20: 'connected' and 'disconnected' alternate, starting with 'connected':
\* at every moment the 'disconnected' events number as many as the 'connected'
\* events or one fewer.
C20_ConnectionEventsAlternate ==
  /\ emitted.disconnected <= emitted.connected
  /\ emitted.connected <= emitted.disconnected + 1

\* C14: when a connect has succeeded the poll timer is set and its interval
\* is scheduled, so ticks can occur (and there is only the one handle).
C14_ConnectStartsPoller ==
  (ret.op = "connect" /\ ret.out = "connected")
    => (pollPeersTimer # 0 /\ timerActive)

\* C15: a poll whose peer query fails leaves the PeerSet as it was.
C15_FailedPollKeepsPeers ==
  [][ ( /\ swarmCalls' = swarmCalls - 1
        /\ ret'.op = "update" /\ ret'.out = CollaboratorError )
        => peers' = peers ]_vars

\* C12: every record in a feed has type text and a content of at most 2048
\* characters, and the record a send has just appended holds exactly the
\* first min(len(text), 2048) characters of the text that was sent.
C12_SendTruncates ==
  /\ \A f \in 1..Len(feeds) : \A i \in 1..Len(feeds[f].log) :
       feeds[f].log[i].type = "text" /\ Len(feeds[f].log[i].content) <= 2048
  /\ (ret.op = "send" /\ ret.out = "added")
       => LET log == feeds[ret.ref].log
              n == IF Len(lastMessage) < 2048 THEN Len(lastMessage) ELSE 2048
          IN /\ Len(log) > 0
             /\ Len(log[Len(log)].content) = n
             /\ \A i \in 1..n : log[Len(log)].content[i] = lastMessage[i]

\* C12 witness: a text longer than the limit was sent and stored with exactly
\* 2048 characters.
C12_Witness ==
  /\ ret.op = "send" /\ ret.out = "added"
  /\ Len(lastMessage) = LongText
  /\ Len(feeds[ret.ref].log[Len(feeds[ret.ref].log)].content) = 2048

\* C13: whenever the upload of a buffer source completes and its record is
\* posted, the posted record has meta.type 'file'.
C13_BufferSourceIsFile ==
  [][\A u \in BagToSet(uploads) :
       ( /\ uploads' = uploads (-) SetToBag({u})
         /\ ret'.op = "addFile" /\ ret'.out = "added"
         /\ isBuffer(u.source) )
       => LET log == feeds'[ret'.ref].log
          IN log[Len(log)].meta.type = "file"]_vars

====
